---- MODULE Spec2Model ----
(***************************************************************************)
(* Ephys ingest of vathes/map-ephys (src/pipeline/ingest/ephys.py): the    *)
(* two JRClust-v3 loaders of EphysIngest, _load_v3 (called by make) and    *)
(* make_v3, as one state machine per ingest of one probe file.             *)
(*                                                                         *)
(* Arrays are functions on 0..n-1, as numpy indexes them.  A value in      *)
(* seconds is the pair <<ticks, hz>> of the division that produced it.     *)
(* np.array of ragged per-trial lists is the object array numpy built when *)
(* this code was written.  bf['trialNum'] is taken as a flat array, as     *)
(* make_v3 reads it (squeeze_me=True).                                     *)
(***************************************************************************)
EXTENDS Integers, Sequences, FiniteSets, TLC

\* ---------------------------------------------------------------- bounds
MaxEphysTrials == 3        \* longest bitCodeS / sTrig / goCue / trialNum
MaxBehavTrials == 3        \* longest behaviour bitcode list (TrialNote)
MaxTrials == 3             \* trials of the trialization initial states
MaxSpikes == 2             \* raw spikes of the trialization initial states
MaxTick == 2               \* latest tick (after the pre-trigger shift)
MaxUnitSpikes == 3         \* raw spikes of the unit-order initial states

\* ------------------------------------------------------ program constants
PreTrigger == 7500         \* sTrig - 7500
SamplingRate == 30000      \* sRateHz of the recordings
SetTableSize == 8          \* slots of CPython's small set table (set(units))

Codes == {5, 6}            \* bitcode tokens
TrialNums == {1, 2}        \* entries of a trialNum correction array
ClusterIds == {0, 1, 2}    \* viClu values; <= 0 is noise
NoteCodes == {"single", "ok", "multi", "null", "junk"}
UnitIds == {0, 1, 2, 8}    \* viClu values of the unit-order initial states
RowNotes == <<"single", "ok", "multi", "null">>  \* notes of successive cluster rows

\* ---------------------------------------------------------- array helpers
Length(a) == Cardinality(DOMAIN a)

Arrays(S, n) == [0..(n - 1) -> S]

ArraysUpTo(S, lo, hi) == UNION {Arrays(S, n) : n \in lo..hi}

\* the k-th smallest member of the index set I (k from 0)
NthIndex(I, k) == CHOOSE i \in I : Cardinality({j \in I : j < i}) = k

\* a[np.where(mask)] / a[mask]: the elements at the indices I, in index order
Take(a, I) == [k \in 0..(Cardinality(I) - 1) |-> a[NthIndex(I, k)]]

\* np.where(a == v)[0]: the indices holding v
Where(a, v) == {i \in DOMAIN a : a[i] = v}

Min(S) == CHOOSE x \in S : \A y \in S : x <= y

Max(S) == CHOOSE x \in S : \A y \in S : y <= x

\* x / hz, kept as the division it is
Div(x, hz) == <<x, hz>>

\* the number of spikes held by a set of rows with a spike_times field
RECURSIVE SpikeCount(_)
SpikeCount(rows) ==
  IF rows = {} THEN 0
  ELSE LET r == CHOOSE x \in rows : TRUE
       IN Length(r.spike_times) + SpikeCount(rows \ {r})

\* sorted(a): ascending by ticks
SortedTicks(a) ==
  CHOOSE s \in [DOMAIN a -> {a[i] : i \in DOMAIN a}] :
    /\ \A i, j \in DOMAIN a : i < j => s[i][1] <= s[j][1]
    /\ \A v \in {a[i] : i \in DOMAIN a} :
         Cardinality({i \in DOMAIN a : s[i] = v}) = Cardinality({i \in DOMAIN a : a[i] = v})

\* ------------------------------------------------------------------ state
VARIABLES
  loader,        \* which loader runs: "_load_v3" or "make_v3"
  viTime_spk,    \* ef['viTime_spk']: spike times (ticks)
  viSite_spk,    \* ef['viSite_spk']: spike sites
  viClu,         \* ef['S_clu']['viClu']: cluster id of each spike
  csNote_clu,    \* ef['S_clu']['csNote_clu']: curation note of each cluster row
  sRateHz,       \* ef['P']['sRateHz']
  sTrig,         \* bf['sTrig']
  goCue,         \* bf['goCue']
  bitCodeS,      \* bf['bitCodeS']: ephys sync codes
  bitCodeB,      \* TrialNote 'bitcode' of the session, by trial
  hasTrialNum,   \* 'trialNum' in mat: the bitcode file holds a correction array
  trialNum,      \* bf['trialNum'] (<<>> when the file holds none)
  pc,            \* the statement the loader is at
  err,           \* the exception that ended the call, or "none"
  unit_notes,    \* decoded notes (unit_notes / strs)
  units,         \* cluster ids after noise removal (units / cluster_ids)
  spikes,        \* spike times after noise removal (spikes / spike_times)
  spike_sites,   \* spike sites after noise removal
  matched,       \* "none", "match" or "fix": the renumbering method chosen
  start_behav,   \* _load_v3: start_behav
  trials,        \* _load_v3: trials, position -> behaviour trial
  spike_trials_fix, \* make_v3: the renumbering array (<<>> while None)
  startB,        \* make_v3: startB, the values np.where(..)[0].squeeze() left
  trial_spikes,  \* _load_v3: per trial spike ticks less the go cue
  trial_units,   \* _load_v3: per trial cluster ids
  spike_trials,  \* make_v3: trial of each spike
  spike_times2,  \* make_v3: go-cue aligned time of each spike
  ProbeInsertion,       \* ephys.ProbeInsertion rows written
  RecordingSystemSetup, \* ephys.ProbeInsertion.RecordingSystemSetup rows
  Unit,                 \* ephys.Unit rows
  UnitTrial,            \* ephys.Unit.UnitTrial rows
  TrialSpikes,          \* ephys.TrialSpikes rows
  IngestRow,            \* EphysIngest rows
  EphysFile             \* EphysIngest.EphysFile rows

inputs == <<loader, viTime_spk, viSite_spk, viClu, csNote_clu, sRateHz,
            sTrig, goCue, bitCodeS, bitCodeB, hasTrialNum, trialNum>>

extracted == <<unit_notes, units, spikes, spike_sites>>

aligned == <<matched, start_behav, trials, spike_trials_fix, startB>>

trialized == <<trial_spikes, trial_units, spike_trials, spike_times2>>

tables == <<ProbeInsertion, RecordingSystemSetup, Unit, UnitTrial,
            TrialSpikes, IngestRow, EphysFile>>

vars == <<inputs, pc, err, extracted, aligned, trialized, tables>>

Loaders == {"_load_v3", "make_v3"}

\* ---------------------------------------------------------- initial states
\* everything but the input files: nothing computed, nothing written
Fresh ==
  /\ pc = "start"
  /\ err = "none"
  /\ unit_notes = <<>> /\ units = <<>> /\ spikes = <<>> /\ spike_sites = <<>>
  /\ matched = "none" /\ start_behav = 0 /\ trials = <<>>
  /\ spike_trials_fix = <<>> /\ startB = <<>>
  /\ trial_spikes = <<>> /\ trial_units = <<>>
  /\ spike_trials = <<>> /\ spike_times2 = <<>>
  /\ ProbeInsertion = {} /\ RecordingSystemSetup = {} /\ Unit = {}
  /\ UnitTrial = {} /\ TrialSpikes = {} /\ IngestRow = {} /\ EphysFile = {}

\* strictly increasing trigger arrays of n trials, starts within 0..MaxTick
Triggers(n) ==
  {s \in Arrays({PreTrigger + k : k \in 0..MaxTick}, n) :
     \A i, j \in 0..(n - 1) : i < j => s[i] < s[j]}

\* sync-code initial states: the bitcode lists and the correction array vary,
\* the recording is one unit-1 spike inside each trial and one noise spike
InitAlign ==
  /\ loader \in Loaders
  /\ \E n \in 1..MaxEphysTrials :
       /\ bitCodeS \in Arrays(Codes, n)
       /\ hasTrialNum \in BOOLEAN
       /\ trialNum \in (IF hasTrialNum THEN Arrays(TrialNums, n) ELSE {<<>>})
       /\ sTrig = [t \in 0..(n - 1) |-> PreTrigger + 2 * t]
       /\ goCue = [t \in 0..(n - 1) |-> 2 * t + 1]
       /\ viTime_spk = [k \in 0..n |-> IF k = n THEN 1 ELSE 2 * k + 1]
       /\ viSite_spk = [k \in 0..n |-> k]
       /\ viClu = [k \in 0..n |-> IF k = n THEN 0 ELSE 1]
  /\ bitCodeB \in ArraysUpTo(Codes, 0, MaxBehavTrials)
  /\ csNote_clu = [i \in 0..1 |-> IF i = 0 THEN "single" ELSE "null"]
  /\ sRateHz = SamplingRate
  /\ Fresh

\* trialization initial states: the spikes and the trial starts vary, the
\* bitcodes of the two sides agree over the whole session
InitTrial ==
  /\ loader \in Loaders
  /\ \E n \in 1..MaxTrials :
       /\ sTrig \in Triggers(n)
       /\ goCue \in {[t \in 0..(n - 1) |-> sTrig[t] - PreTrigger + d] : d \in 0..1}
       /\ bitCodeS = [t \in 0..(n - 1) |-> 5 + t]
       /\ bitCodeB = [t \in 0..(n - 1) |-> 5 + t]
       /\ hasTrialNum = FALSE
       /\ trialNum = <<>>
  /\ \E m \in 0..MaxSpikes :
       /\ viTime_spk \in Arrays(0..MaxTick, m)
       /\ viClu \in Arrays(ClusterIds, m)
       /\ viSite_spk = [k \in 0..(m - 1) |-> k]
  /\ csNote_clu = [i \in 0..1 |-> IF i = 0 THEN "single" ELSE "null"]
  /\ sRateHz = SamplingRate
  /\ Fresh

\* curation-note initial states: the notes of the two cluster rows vary, the
\* recording is two trials with agreeing bitcodes, and one spike of unit 1
\* and one of unit 2, or a noise spike and one of unit 2
InitNotes ==
  /\ loader \in Loaders
  /\ csNote_clu \in Arrays(NoteCodes, 2)
  /\ sTrig = [t \in 0..1 |-> PreTrigger + 2 * t]
  /\ goCue = [t \in 0..1 |-> 2 * t + 1]
  /\ bitCodeS = [t \in 0..1 |-> 5 + t]
  /\ bitCodeB = [t \in 0..1 |-> 5 + t]
  /\ hasTrialNum = FALSE
  /\ trialNum = <<>>
  /\ viTime_spk = [k \in 0..1 |-> 2 * k + 1]
  /\ viSite_spk = [k \in 0..1 |-> k]
  /\ viClu \in {[k \in 0..1 |-> k + c] : c \in 0..1}
  /\ sRateHz = SamplingRate
  /\ Fresh

\* unit-order initial states: the cluster ids of the spikes vary over ids
\* that need not be contiguous; the per-cluster arrays hold one row per
\* cluster 1..8 (row r is cluster r + 1), the spikes alternate between the
\* inside of two trials whose bitcodes agree
InitUnits ==
  /\ loader \in Loaders
  /\ \E m \in 1..MaxUnitSpikes :
       /\ viClu \in Arrays(UnitIds, m)
       /\ viTime_spk = [k \in 0..(m - 1) |-> (k % 2) * 10 + 1 + (k \div 2)]
       /\ viSite_spk = [k \in 0..(m - 1) |-> k]
  /\ csNote_clu = [r \in 0..(Max(UnitIds) - 1) |-> RowNotes[(r % Len(RowNotes)) + 1]]
  /\ sTrig = [t \in 0..1 |-> PreTrigger + 10 * t]
  /\ goCue = [t \in 0..1 |-> 10 * t + 1]
  /\ bitCodeS = [t \in 0..1 |-> 5 + t]
  /\ bitCodeB = [t \in 0..1 |-> 5 + t]
  /\ hasTrialNum = FALSE
  /\ trialNum = <<>>
  /\ sRateHz = SamplingRate
  /\ Fresh

Init == InitAlign \/ InitTrial \/ InitNotes \/ InitUnits

\* ------------------------------------------------------------ pure helpers
\* set(units): CPython iterates a small set of small non-negative ints by
\* hash slot, hash(u) & (table size - 1); the ids modelled do not collide
SetIter(S) ==
  [k \in 0..(Cardinality(S) - 1) |->
     CHOOSE u \in S : Cardinality({v \in S : v % SetTableSize < u % SetTableSize}) = k]

\* the values of an array, as set() collects them
Values(a) == {a[i] : i \in DOMAIN a}

\* mat['sTrig'].flatten() - 7500
trial_start == [t \in DOMAIN sTrig |-> sTrig[t] - PreTrigger]

\* note_map of decode_notes; "null" is the note '\x00\x00'
note_map == [n \in {"single", "ok", "multi", "null"} |->
               CASE n = "single" -> "good"
                 [] n = "ok" -> "ok"
                 [] n = "multi" -> "multi"
                 [] n = "null" -> "all"]

\* note_map[...] finds every note: decode_notes raises no KeyError
Decodable(notes) == \A i \in DOMAIN notes : notes[i] \in DOMAIN note_map

\* decode_notes, for notes it can decode
decode_notes(notes) == [i \in DOMAIN notes |-> note_map[notes[i]]]

\* the if/elif chain of make_v3: a note outside the three keeps "all"
strs_of(notes) ==
  [i \in DOMAIN notes |->
     IF notes[i] = "single" THEN "good"
     ELSE IF notes[i] = "ok" THEN "ok"
     ELSE IF notes[i] = "multi" THEN "multi"
     ELSE "all"]

\* a mask that would keep cluster 0 as well
NoiseMaskNonNeg(clu) == {i \in DOMAIN clu : clu[i] >= 0}

\* units > 0: the indices kept by the noise mask
NoiseMask(clu) == {i \in DOMAIN clu : clu[i] > 0}

\* np.where(sync_behav == sync_ephys[0])[0] is not empty
HasAnchor(sync_ephys, sync_behav) == Where(sync_behav, sync_ephys[0]) # {}

\* np.where(sync_behav == sync_ephys[0])[0][0]
AnchorIndex(sync_ephys, sync_behav) == Min(Where(sync_behav, sync_ephys[0]))

\* sync_behav[start:][:len(sync_ephys)]
BehavRange(sync_ephys, sync_behav, start) ==
  [i \in 0..(Min({Length(sync_ephys), Length(sync_behav) - start}) - 1) |->
     sync_behav[start + i]]

\* np.all(np.equal(a, b)): "true", "false", or "ValueError" when the shapes
\* do not broadcast (different lengths, neither of them 1)
AllEqual(a, b) ==
  IF Length(a) = Length(b)
  THEN (IF \A i \in DOMAIN a : a[i] = b[i] THEN "true" ELSE "false")
  ELSE IF Length(b) = 1
  THEN (IF \A i \in DOMAIN a : a[i] = b[0] THEN "true" ELSE "false")
  ELSE IF Length(a) = 1
  THEN (IF \A i \in DOMAIN b : a[0] = b[i] THEN "true" ELSE "false")
  ELSE "ValueError"

\* ------------------------------------------------------- _load_v3, by step
Failed(e) == pc' = "failed" /\ err' = e

\* unit_notes = decode_notes(ef, unit_notes)
LoadV3_DecodeNotes ==
  /\ loader = "_load_v3" /\ pc = "start"
  /\ IF Decodable(csNote_clu)
     THEN pc' = "remove_noise" /\ unit_notes' = decode_notes(csNote_clu)
          /\ UNCHANGED err
     ELSE Failed("KeyError:note_map") /\ UNCHANGED unit_notes
  /\ UNCHANGED <<inputs, units, spikes, spike_sites, aligned, trialized, tables>>

\* units, spikes, spike_sites = (v[units > 0] for v in ...)
LoadV3_RemoveNoise ==
  /\ loader = "_load_v3" /\ pc = "remove_noise"
  /\ units' = Take(viClu, NoiseMask(viClu))
  /\ spikes' = Take(viTime_spk, NoiseMask(viClu))
  /\ spike_sites' = Take(viSite_spk, NoiseMask(viClu))
  /\ pc' = "sync"
  /\ UNCHANGED <<inputs, err, unit_notes, aligned, trialized, tables>>

\* the matching branch of _load_v3 can compute start_behav: the shorter
\* behaviour list starts with a code of the ephys list
LoadV3_HasStartBehav(sync_ephys, sync_behav) ==
  Length(sync_behav) < Length(sync_ephys) => Where(sync_ephys, sync_behav[0]) # {}

\* start_behav of the matching branch of _load_v3
LoadV3_StartBehav(sync_ephys, sync_behav) ==
  IF Length(sync_behav) < Length(sync_ephys)
  THEN Min(Where(sync_ephys, sync_behav[0]))
  ELSE IF Length(sync_behav) > Length(sync_ephys)
  THEN 0 - Min(Where(sync_behav, sync_ephys[0]))
  ELSE 0

\* the mismatch branch of _load_v3: trials = bf['trialNum'] - start_behav with
\* start_behav = -1; a file without trialNum raises KeyError, which the
\* except IndexError clause does not catch
LoadV3_Fix(has_fix, fix) ==
  IF has_fix
  THEN [err |-> "none", matched |-> "fix", start_behav |-> -1,
        trials |-> [i \in DOMAIN fix |-> fix[i] - (-1)]]
  ELSE [err |-> "KeyError:trialNum"]

\* the trial (re)numbering of _load_v3 once the anchor is found
LoadV3_Renumber(sync_ephys, sync_behav, has_fix, fix) ==
  LET start == AnchorIndex(sync_ephys, sync_behav)
      range == BehavRange(sync_ephys, sync_behav, start)
      eq == AllEqual(sync_ephys, range)
  IN IF eq = "ValueError" THEN [err |-> "ValueError:np.equal"]
     ELSE IF eq = "false" THEN LoadV3_Fix(has_fix, fix)
     ELSE IF ~LoadV3_HasStartBehav(sync_ephys, sync_behav)
     THEN [err |-> "IndexError:start_behav"]
     ELSE LET sb == LoadV3_StartBehav(sync_ephys, sync_behav)
          IN [err |-> "none", matched |-> "match", start_behav |-> sb,
              trials |-> [i \in DOMAIN range |-> i - sb]]

\* a variant that takes a missing anchor for a mismatch, as the anchor lookup
\* inside the try block would
LoadV3_SyncResultUnanchored(sync_ephys, sync_behav, has_fix, fix) ==
  IF ~HasAnchor(sync_ephys, sync_behav)
  THEN LoadV3_Fix(has_fix, fix)
  ELSE LoadV3_Renumber(sync_ephys, sync_behav, has_fix, fix)

\* the synchronisation of _load_v3: what it raises, or the method,
\* start_behav and trials it leaves
LoadV3_SyncResult(sync_ephys, sync_behav, has_fix, fix) ==
  IF ~HasAnchor(sync_ephys, sync_behav)
  THEN [err |-> "IndexError:anchor"]
  ELSE LoadV3_Renumber(sync_ephys, sync_behav, has_fix, fix)

\* synchronize ephys data to behavior data
LoadV3_Sync ==
  /\ loader = "_load_v3" /\ pc = "sync"
  /\ LET r == LoadV3_SyncResult(bitCodeS, bitCodeB, hasTrialNum, trialNum)
     IN IF r.err # "none"
        THEN Failed(r.err) /\ UNCHANGED aligned
        ELSE /\ pc' = "trialize" /\ UNCHANGED err
             /\ matched' = r.matched
             /\ start_behav' = r.start_behav
             /\ trials' = r.trials
             /\ UNCHANGED <<spike_trials_fix, startB>>
  /\ UNCHANGED <<inputs, extracted, trialized, tables>>

\* the spikes of trial t of _load_v3: strictly between this start and the
\* next, and for the last trial strictly after its start
LoadV3_TrialIdx(spk, starts, t) ==
  IF t < Length(starts) - 1
  THEN {k \in DOMAIN spk : spk[k] > starts[t] /\ spk[k] < starts[t + 1]}
  ELSE {k \in DOMAIN spk : spk[k] > starts[t]}

\* trialize the spikes & subtract go cue; with fewer than two trials the
\* while loop never binds s1 and the last-trial line raises
LoadV3_Trialize ==
  /\ loader = "_load_v3" /\ pc = "trialize"
  /\ IF Length(trial_start) < 2
     THEN Failed("UnboundLocalError:s1") /\ UNCHANGED <<trial_spikes, trial_units>>
     ELSE /\ trial_spikes' =
               [t \in DOMAIN trial_start |->
                  LET picked == Take(spikes, LoadV3_TrialIdx(spikes, trial_start, t))
                  IN [k \in DOMAIN picked |-> picked[k] - goCue[t]]]
          /\ trial_units' =
               [t \in DOMAIN trial_start |->
                  Take(units, LoadV3_TrialIdx(spikes, trial_start, t))]
          /\ pc' = "build" /\ UNCHANGED err
  /\ UNCHANGED <<inputs, extracted, aligned, spike_trials, spike_times2, tables>>

\* enumerate(set(units)): index -> unit, in the set's iteration order
UnitOrder == SetIter(Values(units))

\* unit_spikes[i]: the unit's spikes in seconds, less the first trial start
unit_spikes(i) ==
  LET mine == Take(spikes, Where(units, UnitOrder[i]))
  IN [k \in DOMAIN mine |-> Div(mine[k] - trial_start[0], sRateHz)]

\* unit_trial_spikes[i][t]: the unit's spikes of bucket t, in seconds
unit_trial_spikes(i, t) ==
  LET mine == Take(trial_spikes[t], Where(trial_units[t], UnitOrder[i]))
  IN [k \in DOMAIN mine |-> Div(mine[k], sRateHz)]

\* convert to seconds and build the spike arrays; trial_spikes[t] for a t
\* past the last bucket raises IndexError
LoadV3_BuildArrays ==
  /\ loader = "_load_v3" /\ pc = "build"
  /\ IF Values(units) # {} /\ Length(trials) > Length(trial_spikes)
     THEN Failed("IndexError:trial_spikes")
     ELSE pc' = "probe_insert" /\ UNCHANGED err
  /\ UNCHANGED <<inputs, extracted, aligned, trialized, tables>>

\* the rows of _gen_probe_insert / the insert1 calls of make_v3
ProbeRow == [insertion_number |-> "probe", probe |-> "15131808323",
             electrode_config_name |-> "npx_first384"]

SetupRow == [insertion_number |-> "probe", sampling_rate |-> SamplingRate]

\* a variant that writes the file load information with the probe rows
LoadV3_GenProbeInsertAndFile ==
  /\ loader = "_load_v3" /\ pc = "probe_insert"
  /\ ProbeInsertion' = ProbeInsertion \cup {ProbeRow}
  /\ RecordingSystemSetup' = RecordingSystemSetup \cup {SetupRow}
  /\ IngestRow' = IngestRow \cup {"skey"}
  /\ EphysFile' = EphysFile \cup {[probe_insertion_number |-> "probe",
                                   ephys_file |-> "ephys_file"]}
  /\ pc' = "insert_unit"
  /\ UNCHANGED <<inputs, err, extracted, aligned, trialized,
                 Unit, UnitTrial, TrialSpikes>>

\* self._gen_probe_insert(sinfo, probe)
LoadV3_GenProbeInsert ==
  /\ loader = "_load_v3" /\ pc = "probe_insert"
  /\ ProbeInsertion' = ProbeInsertion \cup {ProbeRow}
  /\ RecordingSystemSetup' = RecordingSystemSetup \cup {SetupRow}
  /\ pc' = "insert_unit"
  /\ UNCHANGED <<inputs, err, extracted, aligned, trialized,
                 Unit, UnitTrial, TrialSpikes, IngestRow, EphysFile>>

\* insert Unit: row i of every per-cluster array goes with the i-th unit
LoadV3_UnitRow(i) ==
  [unit |-> UnitOrder[i], unit_quality |-> unit_notes[i], cluster_row |-> i,
   spike_times |-> unit_spikes(i)]

LoadV3_InsertUnit ==
  /\ loader = "_load_v3" /\ pc = "insert_unit"
  /\ Unit' = Unit \cup {LoadV3_UnitRow(i) : i \in DOMAIN UnitOrder}
  /\ pc' = "insert_unit_trial"
  /\ UNCHANGED <<inputs, err, extracted, aligned, trialized, ProbeInsertion,
                 RecordingSystemSetup, UnitTrial, TrialSpikes, IngestRow, EphysFile>>

\* the (unit index, position) pairs whose bucket is not empty, in loop order
LoadV3_Emitted ==
  {p \in (DOMAIN UnitOrder) \X (DOMAIN trials) : Length(unit_trial_spikes(p[1], p[2])) > 0}

\* pair p comes before pair q in the nested loops
Before(p, q) == p[1] < q[1] \/ (p[1] = q[1] /\ p[2] < q[2])

\* skip_duplicates: of the emitted pairs with one (unit, trial) key the first
\* is written, the later ones are skipped
LoadV3_Written ==
  {p \in LoadV3_Emitted :
     ~\E q \in LoadV3_Emitted :
        Before(q, p) /\ UnitOrder[q[1]] = UnitOrder[p[1]] /\ trials[q[2]] = trials[p[2]]}

\* insert Unit.UnitTrial
LoadV3_InsertUnitTrial ==
  /\ loader = "_load_v3" /\ pc = "insert_unit_trial"
  /\ UnitTrial' = UnitTrial \cup
       {[unit |-> UnitOrder[p[1]], trial |-> trials[p[2]]] : p \in LoadV3_Written}
  /\ pc' = "insert_trial_spikes"
  /\ UNCHANGED <<inputs, err, extracted, aligned, trialized, ProbeInsertion,
                 RecordingSystemSetup, Unit, TrialSpikes, IngestRow, EphysFile>>

\* insert TrialSpikes
LoadV3_InsertTrialSpikes ==
  /\ loader = "_load_v3" /\ pc = "insert_trial_spikes"
  /\ TrialSpikes' = TrialSpikes \cup
       {[unit |-> UnitOrder[p[1]], trial |-> trials[p[2]],
         spike_times |-> unit_trial_spikes(p[1], p[2])] : p \in LoadV3_Written}
  /\ pc' = "insert_ingest"
  /\ UNCHANGED <<inputs, err, extracted, aligned, trialized, ProbeInsertion,
                 RecordingSystemSetup, Unit, UnitTrial, IngestRow, EphysFile>>

\* the file load information both loaders end with
FileRow == [probe_insertion_number |-> "probe", ephys_file |-> "ephys_file"]

\* self.insert1(skey, skip_duplicates=True); EphysIngest.EphysFile().insert1(..)
LoadV3_InsertIngest ==
  /\ loader = "_load_v3" /\ pc = "insert_ingest"
  /\ IngestRow' = IngestRow \cup {"skey"}
  /\ EphysFile' = EphysFile \cup {FileRow}
  /\ pc' = "done"
  /\ UNCHANGED <<inputs, err, extracted, aligned, trialized, ProbeInsertion,
                 RecordingSystemSetup, Unit, UnitTrial, TrialSpikes>>

LoadV3 ==
  \/ LoadV3_DecodeNotes
  \/ LoadV3_RemoveNoise
  \/ LoadV3_Sync
  \/ LoadV3_Trialize
  \/ LoadV3_BuildArrays
  \/ LoadV3_GenProbeInsert
  \/ LoadV3_InsertUnit
  \/ LoadV3_InsertUnitTrial
  \/ LoadV3_InsertTrialSpikes
  \/ LoadV3_InsertIngest

\* --------------------------------------------------------- make_v3, by step
\* ephys.ProbeInsertion.insert1(..); RecordingSystemSetup.insert1(..), which
\* make_v3 does before it opens the recording
MakeV3_ProbeInsert ==
  /\ loader = "make_v3" /\ pc = "start"
  /\ ProbeInsertion' = ProbeInsertion \cup {ProbeRow}
  /\ RecordingSystemSetup' = RecordingSystemSetup \cup {SetupRow}
  /\ pc' = "extract"
  /\ UNCHANGED <<inputs, err, extracted, aligned, trialized,
                 Unit, UnitTrial, TrialSpikes, IngestRow, EphysFile>>

\* extract spike data: the notes, then the noise clusters removed
MakeV3_Extract ==
  /\ loader = "make_v3" /\ pc = "extract"
  /\ unit_notes' = strs_of(csNote_clu)
  /\ units' = Take(viClu, NoiseMask(viClu))
  /\ spikes' = Take(viTime_spk, NoiseMask(viClu))
  /\ spike_sites' = Take(viSite_spk, NoiseMask(viClu))
  /\ pc' = "check"
  /\ UNCHANGED <<inputs, err, aligned, trialized, tables>>

\* check ephys/bitcode match to determine trial numbering method: what it
\* raises, or the method and spike_trials_fix
MakeV3_CheckResult(bitCodeE, bitCodeB_, has_fix, fix) ==
  IF ~HasAnchor(bitCodeE, bitCodeB_)
  THEN [err |-> "IndexError:anchor"]
  ELSE LET bitCodeB_0 == AnchorIndex(bitCodeE, bitCodeB_)
           bitCodeB_ext == BehavRange(bitCodeE, bitCodeB_, bitCodeB_0)
           eq == AllEqual(bitCodeE, bitCodeB_ext)
       IN IF eq = "ValueError" THEN [err |-> "ValueError:np.equal"]
          ELSE IF eq = "false"
          THEN (IF has_fix
                THEN [err |-> "none", matched |-> "fix", spike_trials_fix |-> fix]
                ELSE [err |-> "Exception:Bitcode Mismatch"])
          ELSE [err |-> "none", matched |-> "match", spike_trials_fix |-> <<>>]

MakeV3_Check ==
  /\ loader = "make_v3" /\ pc = "check"
  /\ LET r == MakeV3_CheckResult(bitCodeS, bitCodeB, hasTrialNum, trialNum)
     IN IF r.err # "none"
        THEN Failed(r.err) /\ UNCHANGED aligned
        ELSE /\ pc' = "trialize" /\ UNCHANGED err
             /\ matched' = r.matched
             /\ spike_trials_fix' = r.spike_trials_fix
             /\ UNCHANGED <<start_behav, trials, startB>>
  /\ UNCHANGED <<inputs, extracted, trialized, tables>>

\* the iterations i of the backwards loop whose mask holds spike time x
MakeV3_Hits(x, starts) ==
  {i \in 1..(Length(starts) - 1) : x >= starts[i - 1] /\ x < starts[i]}

\* spike_trials and spike_times2 of one spike after the loop: the values of
\* the last iteration (the smallest i) that masked it, else the initial ones
MakeV3_LoopTrial(x, starts) ==
  IF MakeV3_Hits(x, starts) = {} THEN Length(starts) - 1
  ELSE Min(MakeV3_Hits(x, starts)) - 1

MakeV3_LoopTime(x, starts, go) ==
  IF MakeV3_Hits(x, starts) = {} THEN x
  ELSE x - go[Min(MakeV3_Hits(x, starts)) - 1]

\* the two lines after the loop: spike_times2 >= viT_offset_file[-1]
MakeV3_InLast(x, starts, go) ==
  MakeV3_LoopTime(x, starts, go) >= starts[Length(starts) - 1]

MakeV3_SpikeTrial(x, starts, go) ==
  IF MakeV3_InLast(x, starts, go) THEN Length(starts) - 1
  ELSE MakeV3_LoopTrial(x, starts)

MakeV3_SpikeTime2(x, starts, go) ==
  IF MakeV3_InLast(x, starts, go) THEN x - go[Length(starts) - 1]
  ELSE MakeV3_LoopTime(x, starts, go)

\* find the trial of each spike and subtract the goCue of that trial
MakeV3_Trialize ==
  /\ loader = "make_v3" /\ pc = "trialize"
  /\ spike_trials' = [k \in DOMAIN spikes |-> MakeV3_SpikeTrial(spikes[k], trial_start, goCue)]
  /\ spike_times2' = [k \in DOMAIN spikes |->
                        Div(MakeV3_SpikeTime2(spikes[k], trial_start, goCue), sRateHz)]
  /\ pc' = "insert_unit"
  /\ UNCHANGED <<inputs, err, extracted, aligned, trial_spikes, trial_units, tables>>

\* unit_trial_spks[u]: (u_spk_trials, u_spk_times) of the unit
u_spk_trials(u) == Take(spike_trials, Where(units, u))

u_spk_times(u) == Take(spike_times2, Where(units, u))

\* spk_times of build_unit_insert: each go-cue aligned time plus the go cue
\* and plus the start of its trial, both in seconds, then sorted
MakeV3_SpkTimes(u) ==
  SortedTicks([k \in DOMAIN u_spk_times(u) |->
                 Div(u_spk_times(u)[k][1] + goCue[u_spk_trials(u)[k]]
                       + trial_start[u_spk_trials(u)[k]], sRateHz)])

MakeV3_UnitRow(u_id) ==
  [unit |-> UnitOrder[u_id], unit_quality |-> unit_notes[u_id], cluster_row |-> u_id,
   spike_times |-> MakeV3_SpkTimes(UnitOrder[u_id])]

\* ephys.Unit.insert(build_unit_insert(), allow_direct_insert=True)
MakeV3_InsertUnit ==
  /\ loader = "make_v3" /\ pc = "insert_unit"
  /\ Unit' = Unit \cup {MakeV3_UnitRow(i) : i \in DOMAIN UnitOrder}
  /\ pc' = "fix"
  /\ UNCHANGED <<inputs, err, extracted, aligned, trialized, ProbeInsertion,
                 RecordingSystemSetup, UnitTrial, TrialSpikes, IngestRow, EphysFile>>

\* np.where(a == v)[0].squeeze(): the indices, ascending and all of them
Squeezed(a, v) == Take([i \in DOMAIN a |-> i], Where(a, v))

\* startB of the matching branch of make_v3
MakeV3_StartB(bitCodeE, bitCodeB_) ==
  IF Length(bitCodeB_) < Length(bitCodeE)
  THEN Squeezed(bitCodeE, bitCodeB_[0])
  ELSE IF Length(bitCodeB_) > Length(bitCodeE)
  THEN [k \in DOMAIN Squeezed(bitCodeB_, bitCodeE[0]) |->
          0 - Squeezed(bitCodeB_, bitCodeE[0])[k]]
  ELSE [k \in {0} |-> 0]

\* the UnitTrial numbering: startB and spike_trials_fix; spike_trials.max()
\* of no spikes raises ValueError
MakeV3_Fix ==
  /\ loader = "make_v3" /\ pc = "fix"
  /\ IF matched = "match"
     THEN IF Length(spike_trials) = 0
          THEN Failed("ValueError:max") /\ UNCHANGED <<spike_trials_fix, startB>>
          ELSE /\ startB' = MakeV3_StartB(bitCodeS, bitCodeB)
               /\ spike_trials_fix' = [i \in 0..Max(Values(spike_trials)) |-> i]
               /\ pc' = "insert_unit_trial" /\ UNCHANGED err
     ELSE /\ startB' = [k \in {0} |-> 0]
          /\ spike_trials_fix' = [i \in DOMAIN spike_trials_fix |-> spike_trials_fix[i] - 1]
          /\ pc' = "insert_unit_trial" /\ UNCHANGED err
  /\ UNCHANGED <<inputs, extracted, matched, start_behav, trials, trialized, tables>>

\* for tr in set(spike_trials): the trials that hold a spike of any unit
TrialOrder == SetIter(Values(spike_trials))

\* the (unit index, index into TrialOrder) pairs of the two insert loops
MakeV3_Emitted == (DOMAIN UnitOrder) \X (DOMAIN TrialOrder)

\* trial=spike_trials_fix[tr] - startB, for a startB of one value
MakeV3_TrialOf(j) == spike_trials_fix[TrialOrder[j]] - startB[0]

\* a row can be written: startB is one number and tr indexes the array
MakeV3_Insertable ==
  /\ Length(startB) = 1
  /\ \A j \in DOMAIN TrialOrder : TrialOrder[j] \in DOMAIN spike_trials_fix

MakeV3_Written ==
  {p \in MakeV3_Emitted :
     ~\E q \in MakeV3_Emitted :
        Before(q, p) /\ q[1] = p[1] /\ MakeV3_TrialOf(q[2]) = MakeV3_TrialOf(p[2])}

\* UnitTrial; a startB of no or several values makes trial an array, which
\* the insert cannot store
MakeV3_InsertUnitTrial ==
  /\ loader = "make_v3" /\ pc = "insert_unit_trial"
  /\ IF MakeV3_Emitted # {} /\ ~MakeV3_Insertable
     THEN Failed(IF Length(startB) = 1 THEN "IndexError:spike_trials_fix"
                 ELSE "TypeError:trial")
          /\ UNCHANGED UnitTrial
     ELSE /\ UnitTrial' = UnitTrial \cup
               {[unit |-> UnitOrder[p[1]], trial |-> MakeV3_TrialOf(p[2])] :
                  p \in MakeV3_Written}
          /\ pc' = "insert_trial_spikes" /\ UNCHANGED err
  /\ UNCHANGED <<inputs, extracted, aligned, trialized, ProbeInsertion,
                 RecordingSystemSetup, Unit, TrialSpikes, IngestRow, EphysFile>>

\* u_spk_times[u_spk_trials == tr]
MakeV3_TrialTimes(u, tr) == Take(u_spk_times(u), Where(u_spk_trials(u), tr))

\* TrialSpike
MakeV3_InsertTrialSpikes ==
  /\ loader = "make_v3" /\ pc = "insert_trial_spikes"
  /\ TrialSpikes' = TrialSpikes \cup
       {[unit |-> UnitOrder[p[1]], trial |-> MakeV3_TrialOf(p[2]),
         spike_times |-> MakeV3_TrialTimes(UnitOrder[p[1]], TrialOrder[p[2]])] :
          p \in MakeV3_Written}
  /\ pc' = "insert_ingest"
  /\ UNCHANGED <<inputs, err, extracted, aligned, trialized, ProbeInsertion,
                 RecordingSystemSetup, Unit, UnitTrial, IngestRow, EphysFile>>

\* self.insert1(key, ..); EphysIngest.EphysFile().insert1(..)
MakeV3_InsertIngest ==
  /\ loader = "make_v3" /\ pc = "insert_ingest"
  /\ IngestRow' = IngestRow \cup {"skey"}
  /\ EphysFile' = EphysFile \cup {FileRow}
  /\ pc' = "done"
  /\ UNCHANGED <<inputs, err, extracted, aligned, trialized, ProbeInsertion,
                 RecordingSystemSetup, Unit, UnitTrial, TrialSpikes>>

MakeV3 ==
  \/ MakeV3_ProbeInsert
  \/ MakeV3_Extract
  \/ MakeV3_Check
  \/ MakeV3_Trialize
  \/ MakeV3_InsertUnit
  \/ MakeV3_Fix
  \/ MakeV3_InsertUnitTrial
  \/ MakeV3_InsertTrialSpikes
  \/ MakeV3_InsertIngest

Next == LoadV3 \/ MakeV3


Spec == Init /\ [][Next]_vars

SpecAlign == InitAlign /\ [][Next]_vars

SpecTrial == InitTrial /\ [][Next]_vars

SpecNotes == InitNotes /\ [][Next]_vars

SpecUnits == InitUnits /\ [][Next]_vars

\* ------------------------------------------------- vocabulary of the claims
\* the per-trial buckets exist: the trialization ran to its end
Trialized ==
  IF loader = "_load_v3"
  THEN pc \in {"build", "probe_insert", "insert_unit", "insert_unit_trial",
               "insert_trial_spikes", "insert_ingest", "done"}
       \/ (pc = "failed" /\ err = "IndexError:trial_spikes")
  ELSE pc \in {"insert_unit", "fix", "insert_unit_trial", "insert_trial_spikes",
               "insert_ingest", "done"}
       \/ (pc = "failed" /\ err \in {"ValueError:max", "TypeError:trial",
                                     "IndexError:spike_trials_fix"})

\* tick x lies in the half-open window of trial t (the last one is unbounded)
InWindow(x, t) ==
  /\ x >= trial_start[t]
  /\ t < Length(trial_start) - 1 => x < trial_start[t + 1]

\* filtered spike k was put in the bucket of trial t
InBucket(k, t) ==
  IF loader = "_load_v3"
  THEN \E j \in DOMAIN trial_spikes[t] :
         trial_spikes[t][j] = spikes[k] - goCue[t] /\ trial_units[t][j] = units[k]
  ELSE spike_trials[k] = t

\* the exceptions the synchronisation step can end with
SyncErrors == {"IndexError:anchor", "ValueError:np.equal", "KeyError:trialNum",
               "Exception:Bitcode Mismatch", "IndexError:start_behav"}

\* the renumbering is computed: trials of _load_v3, spike_trials_fix and
\* startB of make_v3
HasMap ==
  IF loader = "_load_v3"
  THEN matched # "none"
  ELSE pc \in {"insert_unit_trial", "insert_trial_spikes", "insert_ingest", "done"}
       \/ (pc = "failed" /\ err \in {"TypeError:trial", "IndexError:spike_trials_fix"})

\* the positions the map is defined on
MapDomain == IF loader = "_load_v3" THEN DOMAIN trials ELSE DOMAIN spike_trials_fix

\* the map is a function into the integers (startB is one number)
MapScalar == loader = "make_v3" => Length(startB) = 1

\* the behaviour trial of ephys position i
MapAt(i) == IF loader = "_load_v3" THEN trials[i] ELSE spike_trials_fix[i] - startB[0]

\* the candidate window, when the anchor exists
Window == BehavRange(bitCodeS, bitCodeB, AnchorIndex(bitCodeS, bitCodeB))

\* the candidate window equals sync_ephys exactly
WindowEq == HasAnchor(bitCodeS, bitCodeB) /\ Window = bitCodeS

\* the candidate window exists and differs from sync_ephys
WindowDiffers == HasAnchor(bitCodeS, bitCodeB) /\ Window # bitCodeS

\* the alignment has ended, in a map or in an exception of its own
AlignEnded == HasMap \/ (pc = "failed" /\ err \in SyncErrors)

AnyRowWritten ==
  \/ ProbeInsertion # {} \/ RecordingSystemSetup # {} \/ Unit # {}
  \/ UnitTrial # {} \/ TrialSpikes # {} \/ IngestRow # {} \/ EphysFile # {}

\* ---------------------------------------------------------------- claims
\* C1 (as claimed): spike conservation.  When an ingest is done, for every
\* unit written the spikes of its per-trial rows add up to the spikes of its
\* session-relative spike train.
C1_SpikeConservation ==
  pc = "done" =>
    \A r \in Unit :
      SpikeCount({q \in TrialSpikes : q.unit = r.unit}) = Length(r.spike_times)

\* C1 holds of make_v3 alone: every spike keeps the one trial spike_trials
\* gives it.
C1_MakeV3Conserves == loader = "make_v3" => C1_SpikeConservation

\* C2 (as claimed): a spike exactly at the start tick of trial t+1 is in the
\* bucket of trial t+1 and not in the bucket of trial t.
C2_BoundarySpike ==
  Trialized =>
    \A k \in DOMAIN spikes : \A t \in DOMAIN trial_start :
      (t + 1 \in DOMAIN trial_start /\ spikes[k] = trial_start[t + 1])
        => (InBucket(k, t + 1) /\ ~InBucket(k, t))

\* C2 holds of make_v3 alone (>= on the left, < on the right).
C2_MakeV3Boundary == loader = "make_v3" => C2_BoundarySpike

\* C3 (as claimed): for one or more trial windows the trialization ends and
\* puts every filtered spike at or after the first trial start in trial t
\* exactly when the half-open window of t holds it, so in exactly one trial.
C3_ExactlyOneTrial ==
  /\ err # "UnboundLocalError:s1"
  /\ Trialized =>
       \A k \in DOMAIN spikes :
         spikes[k] >= trial_start[0] =>
           \A t \in DOMAIN trial_start : InBucket(k, t) <=> InWindow(spikes[k], t)

\* C3 holds of make_v3 alone for the spikes at or after the first start.
C3_MakeV3ExactlyOne == loader = "make_v3" => C3_ExactlyOneTrial

\* C4 (as claimed): when the window equals sync_ephys and the behaviour list
\* is longer, the offset is minus the first index b0 of sync_ephys[0] in
\* sync_behav and position i maps to i + b0; with equal lengths the offset
\* is 0 and the map is the identity.
C4_OffsetBehavLonger ==
  (HasMap /\ WindowEq /\ Length(bitCodeB) >= Length(bitCodeS)) =>
    LET b0 == AnchorIndex(bitCodeS, bitCodeB)
    IN /\ MapScalar
       /\ IF loader = "_load_v3" THEN start_behav = 0 - b0 ELSE startB[0] = 0 - b0
       /\ MapDomain = DOMAIN bitCodeS
       /\ \A i \in MapDomain : MapAt(i) = i + b0

\* C4 holds of _load_v3 alone (np.where(..)[0][0] takes the first index).
C4_LoadV3Offset == loader = "_load_v3" => C4_OffsetBehavLonger

\* C4 holds of make_v3 when the anchor code occurs once in sync_behav
\* (squeeze() then leaves one number).
C4_MakeV3UniqueAnchor ==
  (loader = "make_v3" /\ Cardinality(Where(bitCodeB, bitCodeS[0])) = 1)
    => C4_OffsetBehavLonger

\* the behaviour list is a truncation of the ephys list: shorter, and equal
\* to the ephys codes from the first ephys index k holding sync_behav[0]
TruncatedMatch ==
  /\ Length(bitCodeB) > 0
  /\ Length(bitCodeB) < Length(bitCodeS)
  /\ Where(bitCodeS, bitCodeB[0]) # {}
  /\ LET k == Min(Where(bitCodeS, bitCodeB[0]))
     IN /\ k + Length(bitCodeB) <= Length(bitCodeS)
        /\ \A j \in DOMAIN bitCodeB : bitCodeS[k + j] = bitCodeB[j]

\* the synchronisation step has been taken
SyncTaken ==
  IF loader = "_load_v3"
  THEN pc \notin {"start", "remove_noise", "sync"} /\ err # "KeyError:note_map"
  ELSE pc \notin {"start", "extract", "check"}

\* C5 (as claimed): when sync_behav is shorter than sync_ephys and the codes
\* match, the alignment succeeds with the offset k, the index in sync_ephys
\* of sync_behav[0], and position i maps to i - k.
C5_TruncatedBehavior ==
  (TruncatedMatch /\ SyncTaken) =>
    /\ ~(pc = "failed" /\ err \in SyncErrors)
    /\ HasMap =>
         LET k == Min(Where(bitCodeS, bitCodeB[0]))
         IN /\ MapScalar
            /\ IF loader = "_load_v3" THEN start_behav = k ELSE startB[0] = k
            /\ \A i \in MapDomain : MapAt(i) = i - k

\* C6 (as claimed): when the window differs from sync_ephys and the bitcode
\* file holds no trialNum, the alignment ends in 'Bitcode Mismatch' and never
\* in a map.
C6_MismatchNoFallback ==
  (WindowDiffers /\ ~hasTrialNum /\ SyncTaken) =>
    (pc = "failed" /\ err = "Exception:Bitcode Mismatch" /\ matched = "none")

\* C6, the weaker half: no map comes out of a mismatch without trialNum.
\* It fails too: np.equal broadcasts a window of one code.
C6_MismatchNeverMaps ==
  (WindowDiffers /\ ~hasTrialNum /\ SyncTaken) => matched = "none"

\* C7 (as claimed): when the ingest fails on a bitcode mismatch or on an
\* undecodable note, no row of the session has been written.
C7_AllOrNothing ==
  (pc = "failed" /\ err \in {"Exception:Bitcode Mismatch", "KeyError:trialNum",
                             "KeyError:note_map"})
    => ~AnyRowWritten

\* C7 holds of _load_v3 alone: its first insert follows every check.
C7_LoadV3AllOrNothing == loader = "_load_v3" => C7_AllOrNothing

\* C8: when no element of sync_behav equals sync_ephys[0], the
\* synchronisation ends in the IndexError of the anchor lookup: no method is
\* chosen, no map is left and no per-trial row is ever written.
C8_AnchorFailure ==
  (~HasAnchor(bitCodeS, bitCodeB) /\ SyncTaken) =>
    /\ pc = "failed" /\ err = "IndexError:anchor"
    /\ matched = "none" /\ trials = <<>> /\ spike_trials_fix = <<>>
    /\ UnitTrial = {} /\ TrialSpikes = {}

\* C8's case is reached: a session without anchor has failed at the lookup
C8_Witness ==
  /\ ~HasAnchor(bitCodeS, bitCodeB) /\ Length(bitCodeB) > 0 /\ hasTrialNum
  /\ pc = "failed" /\ err = "IndexError:anchor"

\* C9 (as claimed): on a mismatch with trialNum in the file the map is
\* map[i] = trialNum[i] - (-1) for every ephys position i.
C9_FallbackMapping ==
  (WindowDiffers /\ hasTrialNum /\ AlignEnded) =>
    /\ HasMap /\ MapScalar
    /\ MapDomain = DOMAIN trialNum
    /\ \A i \in MapDomain : MapAt(i) = trialNum[i] - (-1)

\* C9 holds of _load_v3 alone when the window has the length of sync_ephys
\* (np.equal compares, and does not raise or broadcast).
C9_LoadV3Fallback ==
  (loader = "_load_v3" /\ HasAnchor(bitCodeS, bitCodeB)
     /\ Length(Window) = Length(bitCodeS)) => C9_FallbackMapping

\* C10 (as claimed): a constant-offset map is produced only when the window
\* equals sync_ephys, and then the behaviour code at the mapped index of
\* every mapped ephys position is the ephys code of that position.
C10_NeverGuesses ==
  (HasMap /\ matched = "match") =>
    /\ WindowEq
    /\ MapScalar =>
         \A i \in MapDomain :
           /\ i \in DOMAIN bitCodeS
           /\ MapAt(i) \in DOMAIN bitCodeB
           /\ bitCodeB[MapAt(i)] = bitCodeS[i]

\* the noise clusters have been removed
Extracted ==
  IF loader = "_load_v3"
  THEN pc \notin {"start", "remove_noise"} /\ err # "KeyError:note_map"
  ELSE pc \notin {"start", "extract"}

\* C11: after extraction no surviving spike has a cluster id <= 0, the three
\* arrays have one length, and they are the raw arrays at the same raw
\* indices, in raw order, which are all the raw indices of a cluster id > 0.
C11_FilteringInvariant ==
  Extracted =>
    /\ \A k \in DOMAIN units : units[k] > 0
    /\ Length(spikes) = Length(units) /\ Length(spike_sites) = Length(units)
    /\ Length(units) = Cardinality({i \in DOMAIN viClu : viClu[i] > 0})
    /\ \E f \in [DOMAIN units -> DOMAIN viClu] :
         /\ \A j, k \in DOMAIN units : j < k => f[j] < f[k]
         /\ \A k \in DOMAIN units :
              /\ units[k] = viClu[f[k]]
              /\ spikes[k] = viTime_spk[f[k]]
              /\ spike_sites[k] = viSite_spk[f[k]]

\* C11's case is reached: a noise spike was removed and a spike survived
C11_Witness ==
  /\ Extracted
  /\ Length(units) > 0 /\ Length(units) < Length(viClu)
  /\ \E i \in DOMAIN viClu : viClu[i] <= 0 /\ i < Length(viClu) - 1

\* the curation notes have been read
NotesTaken ==
  IF loader = "_load_v3" THEN pc # "start" ELSE pc \notin {"start", "extract"}

\* C12 (as claimed): notes of the vocabulary are decoded single -> good,
\* ok -> ok, multi -> multi, null -> all, and a note outside the vocabulary
\* ends the extraction in an error and leaves no label.
C12_QualityDecoding ==
  NotesTaken =>
    IF Decodable(csNote_clu)
    THEN err # "KeyError:note_map"
         /\ \A i \in DOMAIN csNote_clu : unit_notes[i] = note_map[csNote_clu[i]]
    ELSE pc = "failed" /\ err = "KeyError:note_map" /\ unit_notes = <<>>

\* C12 holds of _load_v3 alone: note_map[..] raises KeyError.
C12_LoadV3Decoding == loader = "_load_v3" => C12_QualityDecoding

\* C12, the vocabulary half, holds of both loaders.
C12_Vocabulary ==
  (NotesTaken /\ Decodable(csNote_clu)) =>
    \A i \in DOMAIN csNote_clu : unit_notes[i] = note_map[csNote_clu[i]]

\* the Unit rows have been inserted
UnitsWritten ==
  IF loader = "_load_v3"
  THEN pc \in {"insert_unit_trial", "insert_trial_spikes", "insert_ingest", "done"}
  ELSE pc \in {"fix", "insert_unit_trial", "insert_trial_spikes", "insert_ingest", "done"}
       \/ (pc = "failed" /\ err \in {"ValueError:max", "TypeError:trial",
                                     "IndexError:spike_trials_fix"})

\* C13 (as claimed): every unit row carries the metadata of the cluster with
\* its unit id: the row of the per-cluster arrays it reads is the row of
\* that cluster (row unit - 1) and its quality is that row's note, also when
\* the surviving ids are not 1..N.
C13_UnitMetadataJoin ==
  UnitsWritten =>
    \A r \in Unit :
      /\ r.cluster_row = r.unit - 1
      /\ r.unit_quality = strs_of(csNote_clu)[r.unit - 1]

\* C13 holds when the surviving ids are exactly 1..N: the i-th unit of the
\* enumeration is then cluster i + 1.
C13_ContiguousJoin ==
  Values(units) = 1..Cardinality(Values(units)) => C13_UnitMetadataJoin

\* C14 (as claimed): the units are enumerated in ascending order of their
\* ids: of two unit rows the one with the smaller enumeration index has the
\* smaller unit id.
C14_UnitIdStability ==
  UnitsWritten =>
    \A r, q \in Unit : r.cluster_row < q.cluster_row => r.unit < q.unit

\* C14 holds when every surviving id is below the size of the set's table:
\* each id then sits in the slot of its own value.
C14_SmallIdsAscending ==
  (\A u \in Values(units) : u < SetTableSize) => C14_UnitIdStability

\* both per-trial tables have been written
PerTrialWritten == pc \in {"insert_ingest", "done"}

\* C15 (as claimed): once the per-trial rows are written, no TrialSpikes row
\* holds an empty spike sequence, every UnitTrial row is of a unit and trial
\* with a spike in the bucket, and every unit with a spike in the bucket of
\* a trial has its rows for that trial.
C15_EmptyBucketsDropped ==
  PerTrialWritten =>
    /\ \A q \in TrialSpikes : Length(q.spike_times) > 0
    /\ \A q \in UnitTrial :
         \E k \in DOMAIN spikes : \E t \in DOMAIN trial_start :
           units[k] = q.unit /\ InBucket(k, t) /\ MapAt(t) = q.trial
    /\ \A k \in DOMAIN spikes : \A t \in DOMAIN trial_start :
         InBucket(k, t) =>
           /\ \E q \in UnitTrial : q.unit = units[k] /\ q.trial = MapAt(t)
           /\ \E q \in TrialSpikes : q.unit = units[k] /\ q.trial = MapAt(t)

\* C15 holds of _load_v3 alone (if len(unit_trial_spikes[i][t])).
C15_LoadV3Drops == loader = "_load_v3" => C15_EmptyBucketsDropped

\* C16 (as claimed): a spike in the bucket of trial t is stored there as
\* (spike tick - goCue[t]) / sRateHz, one division.  For _load_v3 every
\* bucket entry plus the go cue of its bucket is the tick of a spike of that
\* unit inside the window of the trial; for make_v3 every spike's aligned
\* time is its tick less the go cue of its own trial, over the rate; and
\* every value of a TrialSpikes row is such a value of a spike of its bucket.
C16_GoCueRealignment ==
  /\ Trialized =>
       IF loader = "_load_v3"
       THEN \A t \in DOMAIN trial_spikes : \A j \in DOMAIN trial_spikes[t] :
              \E k \in DOMAIN spikes :
                /\ units[k] = trial_units[t][j]
                /\ spikes[k] = trial_spikes[t][j] + goCue[t]
                /\ InWindow(spikes[k], t)
       ELSE \A k \in DOMAIN spikes :
              spike_times2[k] = Div(spikes[k] - goCue[spike_trials[k]], sRateHz)
  /\ PerTrialWritten =>
       \A q \in TrialSpikes : \A j \in DOMAIN q.spike_times :
         \E k \in DOMAIN spikes : \E t \in DOMAIN trial_start :
           /\ units[k] = q.unit /\ InBucket(k, t) /\ MapAt(t) = q.trial
           /\ q.spike_times[j] = Div(spikes[k] - goCue[t], sRateHz)

\* C16 holds of _load_v3 alone.
C16_LoadV3Realigns == loader = "_load_v3" => C16_GoCueRealignment

\* C16 holds of make_v3 when no spike precedes the first trial start.
C16_MakeV3FromFirstStart ==
  (loader = "make_v3" /\ \A i \in NoiseMask(viClu) : viTime_spk[i] >= trial_start[0])
    => C16_GoCueRealignment

\* the session-relative train of unit u as claimed: every filtered spike of
\* the unit, its tick less the first trial start, over the rate
SessionTrain(u) ==
  LET mine == Take(spikes, Where(units, u))
  IN [k \in DOMAIN mine |-> Div(mine[k] - trial_start[0], sRateHz)]

\* C17 (as claimed): the spike_times of every unit row is, up to order, the
\* unit's full filtered spike set with each value
\* (spike tick - first trial start) / sRateHz.
C17_SessionRelativeTrain ==
  UnitsWritten =>
    \A r \in Unit :
      /\ Length(r.spike_times) = Length(SessionTrain(r.unit))
      /\ SortedTicks(r.spike_times) = SortedTicks(SessionTrain(r.unit))

\* C17 holds of _load_v3 alone.
C17_LoadV3SessionRelative == loader = "_load_v3" => C17_SessionRelativeTrain

\* what make_v3 stores instead: spike tick plus the start of the spike's
\* trial for a spike realigned to a go cue, and for a spike before the first
\* start its tick plus the go cue and the start of the last trial
C17_MakeV3Stores ==
  (UnitsWritten /\ loader = "make_v3") =>
    \A r \in Unit : \A j \in DOMAIN r.spike_times :
      \E k \in DOMAIN spikes :
        /\ units[k] = r.unit
        /\ r.spike_times[j] =
             Div(IF spikes[k] >= trial_start[0]
                 THEN spikes[k] + trial_start[spike_trials[k]]
                 ELSE spikes[k] + goCue[spike_trials[k]] + trial_start[spike_trials[k]],
                 sRateHz)

\* a spike has been put in a trial, or a unit record has been written
BucketedOrEmitted ==
  \/ trial_spikes # <<>> \/ spike_trials # <<>>
  \/ Unit # {} \/ UnitTrial # {} \/ TrialSpikes # {}

\* C18 (as claimed): in every state in which a spike is bucketed or a unit
\* record is written, the numbering method is decided and the trial-index
\* map is computed.
C18_AlignmentPrecedes == BucketedOrEmitted => (matched # "none" /\ HasMap)

\* C18 holds of _load_v3 alone: trials is computed before the while loop.
C18_LoadV3Order == loader = "_load_v3" => C18_AlignmentPrecedes

\* C18, the decision alone, holds of both loaders: match or fix is chosen
\* before the first spike is bucketed.
C18_DecisionFirst == BucketedOrEmitted => matched # "none"

\* C19 (as claimed): when the comparison succeeds the candidate window has
\* the length of sync_ephys, b0 + len(sync_ephys) <= len(sync_behav).
C19_MatchFullWindow ==
  matched = "match" =>
    /\ HasAnchor(bitCodeS, bitCodeB)
    /\ Length(Window) = Length(bitCodeS)
    /\ AnchorIndex(bitCodeS, bitCodeB) + Length(bitCodeS) <= Length(bitCodeB)

\* C19 holds of every window but the window of one code, which np.equal
\* broadcasts: a shorter window of two or more codes raises ValueError.
C19_NoBroadcast ==
  (matched = "match" /\ Length(Window) # 1) => C19_MatchFullWindow

\* C20 (as claimed): the map covers the trial windows.  No read runs past
\* the buckets or past the map; once the map and the buckets exist every
\* bucket holding a spike has a map entry and the map has no entry past the
\* last bucket; and once the per-trial rows are written every bucket holding
\* a spike of a unit is written for that unit under the map's trial.
C20_MapCoversWindows ==
  /\ err \notin {"IndexError:trial_spikes", "IndexError:spike_trials_fix"}
  /\ (HasMap /\ MapScalar /\ Trialized) =>
       /\ \A k \in DOMAIN spikes : \A t \in DOMAIN trial_start :
            InBucket(k, t) => t \in MapDomain
       /\ MapDomain \subseteq DOMAIN trial_start
  /\ PerTrialWritten =>
       \A k \in DOMAIN spikes : \A t \in DOMAIN trial_start :
         InBucket(k, t) =>
           /\ t \in MapDomain
           /\ \E q \in UnitTrial : q.unit = units[k] /\ q.trial = MapAt(t)

\* C20 holds when the candidate window has the length of sync_ephys.
C20_FullWindowCovers ==
  (HasAnchor(bitCodeS, bitCodeB) /\ Length(Window) = Length(bitCodeS))
    => C20_MapCoversWindows

\* C21 (as claimed): once the per-trial rows are written, two distinct
\* trial positions in which one unit has spikes are not written under one
\* trial key.
C21_NoKeyCollision ==
  PerTrialWritten =>
    \A k1, k2 \in DOMAIN spikes : \A t1, t2 \in MapDomain \cap DOMAIN trial_start :
      (units[k1] = units[k2] /\ t1 # t2 /\ InBucket(k1, t1) /\ InBucket(k2, t2))
        => MapAt(t1) # MapAt(t2)

\* C21 holds of the constant-offset map of both loaders.
C21_OffsetInjective == matched = "match" => C21_NoKeyCollision

\* C21 holds of the fallback array when no two of its entries are equal.
C21_InjectiveFallback ==
  (\A i, j \in DOMAIN trialNum : i # j => trialNum[i] # trialNum[j])
    => C21_NoKeyCollision

\* C21, its consequence for _load_v3 (as claimed): every unit has as many
\* TrialSpikes rows as it has positions with spikes, skip_duplicates drops
\* none.  It fails with C21.
C21_BucketsAllWritten ==
  (PerTrialWritten /\ loader = "_load_v3") =>
    \A u \in Values(units) :
      Cardinality({q \in TrialSpikes : q.unit = u}) =
        Cardinality({t \in DOMAIN trials : Length(unit_trial_spikes(NthIndex({i \in DOMAIN UnitOrder : UnitOrder[i] = u}, 0), t)) > 0})

\* the (unit, trial) keys of a per-trial table
Keys(rows) == {<<q.unit, q.trial>> : q \in rows}

====
